---- MODULE Spec2Model ----
(***************************************************************************)
(* A model of vega-lite's data compiler, src/compile/data.ts: compileData  *)
(* and the source, layout, summary, stack and dates namespaces.            *)
(*                                                                         *)
(* The compiler is a pure function of a Model.  A state holds the Model    *)
(* under compilation, the function last applied to it and that function's  *)
(* return value.                                                           *)
(*                                                                         *)
(* Representation.  A JavaScript string that the compiler builds by        *)
(* concatenation is a sequence of string tokens and '+' is \o; a number    *)
(* that is concatenated into a string is converted with ToString, as       *)
(* JavaScript converts it.  An absent (undefined) property that holds a    *)
(* name is the token Undefined; an absent string is the empty sequence.    *)
(***************************************************************************)
EXTENDS Integers, Sequences, FiniteSets, TLC

VARIABLES model, op, ret

vars == <<model, op, ret>>

(***************************************************************************)
(* Names imported by data.ts                                               *)
(***************************************************************************)
X == "x"
Y == "y"
ROW == "row"
COLUMN == "column"
COLOR == "color"

SOURCE == "source"
STACKED_SCALE == "stacked_scale"
LAYOUT == "layout"
SUMMARY == "summary"

TEXT_MARK == "text"

NOMINAL == "nominal"
ORDINAL == "ordinal"
QUANTITATIVE == "quantitative"
TEMPORAL_TYPE == "temporal"

Undefined == "undefined"

\* The channels data.ts names, in the order the Model scans them.
CHANNELS == <<X, Y, ROW, COLUMN, COLOR>>

Channel == {CHANNELS[i] : i \in 1..Len(CHANNELS)}

\* const DEFAULT_NULL_FILTERS
DEFAULT_NULL_FILTERS ==
  [t \in {NOMINAL, ORDINAL, QUANTITATIVE, TEMPORAL_TYPE} |->
     t \in {QUANTITATIVE, TEMPORAL_TYPE}]

(***************************************************************************)
(* The Model collaborator (Model.ts is not part of the sources): a record  *)
(*   mark, transform: [filterNull, filter, calculate],                     *)
(*   unit: [width, height], stackDef, hasValues,                           *)
(*   encoding: [Channel -> [bound, fieldDef, scale]]                       *)
(* with fieldDef = [field, type, aggregate, bin, timeUnit],                *)
(*      bin      = [on, maxbins, step]   (bin: false | true | {..}),       *)
(*      scale    = [type, isArray, domain, padding, bandWidth].            *)
(***************************************************************************)
has(m, channel) == m.encoding[channel].bound

fieldDefOf(m, channel) == m.encoding[channel].fieldDef

scale(m, channel) == m.encoding[channel].scale

mark(m) == m.mark

transformOf(m) == m.transform

stack(m) == m.stackDef

\* model.forEach / model.reduce visit the bound channels in canonical order.
BoundChannels(m) == SelectSeq(CHANNELS, LAMBDA c : has(m, c))

isAggregate(m) ==
  \E c \in Channel : has(m, c) /\ fieldDefOf(m, c).aggregate # Undefined

\* model.dataTable(): the table marks read from
dataTable(m) == IF isAggregate(m) THEN SUMMARY ELSE SOURCE

\* scale.type(scale, fieldDef, channel, mark): the scale's resolved type
scaleType(s, fd, channel, mk) == s.type

isOrdinalScale(m, channel) ==
  has(m, channel) /\
  scaleType(scale(m, channel), fieldDefOf(m, channel), channel, mark(m)) = "ordinal"

(***************************************************************************)
(* fielddef.field(fieldDef, opt): the reference to a field.                *)
(* opt = [datum, prefn, nofn, binSuffix]                                   *)
(***************************************************************************)
NoOpt == [datum |-> FALSE, prefn |-> <<>>, nofn |-> FALSE, binSuffix |-> <<>>]

field(fd, opt) ==
  (IF opt.datum THEN <<"datum.">> ELSE <<>>) \o opt.prefn \o <<fd.field>> \o
  (IF ~opt.nofn /\ fd.bin.on THEN opt.binSuffix ELSE <<>>)

\* model.field(channel, opt)
modelField(m, channel, opt) == field(fieldDefOf(m, channel), opt)

isCount(fd) == fd.aggregate = "count"

\* bin.autoMaxBins(channel): the channel's default maximum number of bins
autoMaxBins(channel) == <<"autoMaxBins", channel>>

\* time.rawDomain(timeUnit, channel): the values of a bounded calendar unit,
\* null for an unbounded one
rawDomain(timeUnit, channel) ==
  CASE timeUnit = "month" -> [isNull |-> FALSE, values |-> [i \in 1..12 |-> i - 1]]
    [] timeUnit = "day"   -> [isNull |-> FALSE, values |-> [i \in 1..7 |-> i - 1]]
    [] OTHER              -> [isNull |-> TRUE, values |-> <<>>]

\* time.parseExpression(timeUnit, fieldRef, onlyRef): the unit's expression template
parseExpression(timeUnit, fieldRef, onlyRef) ==
  <<"parse", timeUnit, IF onlyRef THEN "onlyRef(" ELSE "(">> \o fieldRef \o <<")">>

(***************************************************************************)
(* util: keys of a dictionary set in insertion order                       *)
(***************************************************************************)
Range(s) == {s[i] : i \in 1..Len(s)}

\* the keys of the object that results from setting o[s[i]] for i = 1..: each
\* key once, in the order of its first insertion
RECURSIVE InsertionOrder(_)
InsertionOrder(s) ==
  IF s = <<>> THEN <<>>
  ELSE LET front == InsertionOrder(SubSeq(s, 1, Len(s) - 1))
           last  == s[Len(s)]
       IN IF last \in Range(front) THEN front ELSE Append(front, last)

RECURSIVE Flatten(_)
Flatten(ss) == IF ss = <<>> THEN <<>> ELSE Head(ss) \o Flatten(Tail(ss))

\* Array.prototype.join over token sequences
RECURSIVE Join(_, _)
Join(parts, sep) ==
  IF parts = <<>> THEN <<>>
  ELSE IF Len(parts) = 1 THEN parts[1]
  ELSE parts[1] \o sep \o Join(Tail(parts), sep)

(***************************************************************************)
(* namespace source                                                        *)
(***************************************************************************)
\* the fields nullFilterTransform collects, one entry per visited channel
NullFilterHit(m, fd) ==
  LET filterNull == transformOf(m).filterNull
  IN filterNull = "true" \/
     (filterNull = Undefined /\ fd.field # Undefined /\ fd.field # "*" /\
      DEFAULT_NULL_FILTERS[fd.type])

\* one clause per channel: the fields are not collected in a dictionary
filteredFields_perChannel(m) ==
  LET bc == BoundChannels(m)
      hits == SelectSeq(bc, LAMBDA c : NullFilterHit(m, fieldDefOf(m, c)))
  IN [i \in 1..Len(hits) |-> fieldDefOf(m, hits[i]).field]

filteredFields(m) ==
  LET bc == BoundChannels(m)
      hits == SelectSeq(bc, LAMBDA c : NullFilterHit(m, fieldDefOf(m, c)))
  IN InsertionOrder([i \in 1..Len(hits) |-> fieldDefOf(m, hits[i]).field])

nullFilterTransform(m) ==
  LET ff == filteredFields(m)
  IN IF Len(ff) > 0
     THEN << [type |-> "filter",
              test |-> Join([i \in 1..Len(ff) |-> <<"datum.", ff[i], "!==null">>],
                            <<" && ">>)] >>
     ELSE <<>>

filterTransform(m) ==
  LET filter == transformOf(m).filter
  IN IF filter # <<>> THEN << [type |-> "filter", test |-> filter] >> ELSE <<>>

formulaTransform(m) ==
  LET calculate == transformOf(m).calculate
  IN [i \in 1..Len(calculate) |->
        [type |-> "formula", field |-> calculate[i].field, expr |-> calculate[i].expr]]

\* a formula for every time unit, whatever the field's type
timeTransformOf_anyType(m, channel) ==
  LET fd == fieldDefOf(m, channel)
      ref == field(fd, [NoOpt EXCEPT !.nofn = TRUE, !.datum = TRUE])
  IN IF fd.timeUnit # Undefined
     THEN << [type |-> "formula",
              field |-> field(fd, NoOpt),
              expr |-> parseExpression(fd.timeUnit, ref, FALSE)] >>
     ELSE <<>>

timeTransformOf(m, channel) ==
  LET fd == fieldDefOf(m, channel)
      ref == field(fd, [NoOpt EXCEPT !.nofn = TRUE, !.datum = TRUE])
  IN IF fd.type = TEMPORAL_TYPE /\ fd.timeUnit # Undefined
     THEN << [type |-> "formula",
              field |-> field(fd, NoOpt),
              expr |-> parseExpression(fd.timeUnit, ref, FALSE)] >>
     ELSE <<>>

timeTransform(m) ==
  LET bc == BoundChannels(m)
  IN Flatten([i \in 1..Len(bc) |-> timeTransformOf(m, bc[i])])

\* the range label for an ordinal scale only, as summary.def has it
binNeedsRange_ordinalOnly(m, fd, channel) ==
  scaleType(scale(m, channel), fd, channel, mark(m)) = "ordinal"

\* the range-label formula is emitted for an ordinal scale and for color
binNeedsRange(m, fd, channel) ==
  scaleType(scale(m, channel), fd, channel, mark(m)) = "ordinal" \/ channel = COLOR

binTransformOf(m, channel) ==
  LET fd == fieldDefOf(m, channel)
      bin == fieldDefOf(m, channel).bin
      auto == bin.maxbins = <<>> /\ bin.step = <<>>
      binTrans == [type |-> "bin",
                   field |-> <<fd.field>>,
                   output |-> [start |-> field(fd, [NoOpt EXCEPT !.binSuffix = <<"_start">>]),
                               mid |-> field(fd, [NoOpt EXCEPT !.binSuffix = <<"_mid">>]),
                               end |-> field(fd, [NoOpt EXCEPT !.binSuffix = <<"_end">>])],
                   maxbins |-> IF auto THEN autoMaxBins(channel) ELSE bin.maxbins,
                   step |-> bin.step]
      range == [type |-> "formula",
                field |-> field(fd, [NoOpt EXCEPT !.binSuffix = <<"_range">>]),
                expr |-> field(fd, [NoOpt EXCEPT !.datum = TRUE, !.binSuffix = <<"_start">>])
                         \o <<" + '-' + ">> \o
                         field(fd, [NoOpt EXCEPT !.datum = TRUE, !.binSuffix = <<"_end">>])]
  IN IF bin.on
     THEN IF binNeedsRange(m, fd, channel) THEN <<binTrans, range>> ELSE <<binTrans>>
     ELSE <<>>

binTransform(m) ==
  LET bc == BoundChannels(m)
  IN Flatten([i \in 1..Len(bc) |-> binTransformOf(m, bc[i])])

\* the stages in the order the comment in source.transform asks for: time and
\* bin before the filter
transform_binBeforeFilter(m) ==
  nullFilterTransform(m) \o formulaTransform(m) \o binTransform(m) \o
  timeTransform(m) \o filterTransform(m)

\* source.transform
transform(m) ==
  nullFilterTransform(m) \o formulaTransform(m) \o filterTransform(m) \o
  binTransform(m) \o timeTransform(m)

\* source.formatParse: the parse map, a function of the fields it has an entry
\* for; forEach overwrites, so a field's entry is the one of the last channel
\* that sets it.  No entry at all stands for the undefined result.
formatParseEntry(m, fd) ==
  IF fd.type = TEMPORAL_TYPE THEN "date"
  ELSE IF fd.type = QUANTITATIVE /\
          ~(isCount(fd) \/
            \E i \in 1..Len(transformOf(m).calculate) :
               transformOf(m).calculate[i].field = <<fd.field>>)
       THEN "number"
       ELSE Undefined

formatParse(m) ==
  LET bc == BoundChannels(m)
      sets == {i \in 1..Len(bc) : formatParseEntry(m, fieldDefOf(m, bc[i])) # Undefined}
      last(f) == CHOOSE i \in sets :
                   /\ fieldDefOf(m, bc[i]).field = f
                   /\ \A j \in sets : fieldDefOf(m, bc[j]).field = f => j <= i
  IN [f \in {fieldDefOf(m, bc[i]).field : i \in sets} |->
        formatParseEntry(m, fieldDefOf(m, bc[last(f)]))]

\* source.def
sourceDef(m) ==
  [name |-> SOURCE,
   data |-> IF m.hasValues THEN "values" ELSE "url",
   format |-> [type |-> IF m.hasValues THEN "json" ELSE "formatType",
               parse |-> formatParse(m)],
   transform |-> transform(m)]

\* the band widths scaleWidthFormula returns for an unused channel
TextBandWidth == 90

BandWidth == 21

(***************************************************************************)
(* namespace layout                                                        *)
(***************************************************************************)
Distinct == [NoOpt EXCEPT !.datum = TRUE, !.prefn = <<"distinct_">>]

\* the cardinality as facetScaleWidthFormula takes it: no time-unit domain
cardinalityFormula_noTimeUnit(m, channel) ==
  IF scale(m, channel).isArray THEN <<ToString(Len(scale(m, channel).domain))>>
  ELSE modelField(m, channel, Distinct)

cardinalityFormula(m, channel) ==
  LET s == scale(m, channel)
      timeUnit == fieldDefOf(m, channel).timeUnit
      timeUnitDomain == IF timeUnit # Undefined THEN rawDomain(timeUnit, channel)
                        ELSE [isNull |-> TRUE, values |-> <<>>]
  IN IF s.isArray THEN <<ToString(Len(s.domain))>>
     ELSE IF ~timeUnitDomain.isNull THEN <<ToString(Len(timeUnitDomain.values))>>
     ELSE modelField(m, channel, Distinct)

scaleWidthFormula(m, channel, nonOrdinalSize) ==
  IF has(m, channel)
  THEN IF isOrdinalScale(m, channel)
       THEN <<"(">> \o cardinalityFormula(m, channel) \o
            <<" + ", ToString(scale(m, channel).padding), ") * ",
              ToString(scale(m, channel).bandWidth)>>
       ELSE <<ToString(nonOrdinalSize)>>
  ELSE IF mark(m) = TEXT_MARK /\ channel = X
       THEN <<ToString(TextBandWidth)>>
       ELSE <<ToString(BandWidth)>>

facetScaleWidthFormula(m, channel, innerWidth) ==
  LET s == scale(m, channel)
  IN IF has(m, channel)
     THEN LET cardinality == IF s.isArray THEN <<ToString(Len(s.domain))>>
                             ELSE modelField(m, channel, Distinct)
          IN <<"(">> \o innerWidth \o <<" + ", ToString(s.padding), ")", " * ">> \o
             cardinality
     ELSE innerWidth \o <<" + ", ToString(s.padding)>>

distinctSummary(m) ==
  LET cs == SelectSeq(<<X, Y, ROW, COLUMN>>,
                      LAMBDA c : has(m, c) /\ isOrdinalScale(m, c) /\ ~scale(m, c).isArray)
  IN [i \in 1..Len(cs) |-> [field |-> modelField(m, cs[i], NoOpt), ops |-> <<"distinct">>]]

\* layout.def
layoutDef(m) ==
  LET cellWidthFormula == scaleWidthFormula(m, X, m.unit.width)
      cellHeightFormula == scaleWidthFormula(m, Y, m.unit.height)
      isFacet == has(m, COLUMN) \/ has(m, ROW)
      formulas ==
        << [type |-> "formula", field |-> <<"cellWidth">>, expr |-> cellWidthFormula],
           [type |-> "formula", field |-> <<"cellHeight">>, expr |-> cellHeightFormula],
           [type |-> "formula", field |-> <<"width">>,
            expr |-> IF isFacet
                     THEN facetScaleWidthFormula(m, COLUMN, <<"datum.cellWidth">>)
                     ELSE cellWidthFormula],
           [type |-> "formula", field |-> <<"height">>,
            expr |-> IF isFacet
                     THEN facetScaleWidthFormula(m, ROW, <<"datum.cellHeight">>)
                     ELSE cellWidthFormula] >>
  IN IF Len(distinctSummary(m)) > 0
     THEN [name |-> LAYOUT,
           source |-> dataTable(m),
           transform |-> << [type |-> "aggregate", summarize |-> distinctSummary(m)] >>
                         \o formulas]
     ELSE [name |-> LAYOUT,
           values |-> << "{}" >>,
           transform |-> formulas]

(***************************************************************************)
(* namespace summary                                                       *)
(***************************************************************************)
\* every channel's field enters dims, also an aggregated one
dimsOf_aggregatedToo(m, channel) == << field(fieldDefOf(m, channel), NoOpt) >>

\* the names one channel enters into dims, in the order it enters them
dimsOf(m, channel) ==
  LET fd == fieldDefOf(m, channel)
  IN IF fd.aggregate # Undefined THEN <<>>
     ELSE IF fd.bin.on
          THEN << field(fd, [NoOpt EXCEPT !.binSuffix = <<"_start">>]),
                  field(fd, [NoOpt EXCEPT !.binSuffix = <<"_mid">>]),
                  field(fd, [NoOpt EXCEPT !.binSuffix = <<"_end">>]) >> \o
               (IF scaleType(scale(m, channel), fd, channel, mark(m)) = "ordinal"
                THEN << field(fd, [NoOpt EXCEPT !.binSuffix = <<"_range">>]) >>
                ELSE <<>>)
          ELSE << field(fd, NoOpt) >>

\* the <<field, op>> pairs one channel enters into meas
measOf(m, channel) ==
  LET fd == fieldDefOf(m, channel)
  IN IF fd.aggregate = Undefined THEN <<>>
     ELSE IF fd.aggregate = "count" THEN << <<"*", "count">> >>
     ELSE << <<fd.field, fd.aggregate>> >>

\* summary.def; Null when the model has no aggregate
summaryDef(m) ==
  LET bc == BoundChannels(m)
      hasAggregate == \E i \in 1..Len(bc) : fieldDefOf(m, bc[i]).aggregate # Undefined
      groupby == InsertionOrder(Flatten([i \in 1..Len(bc) |-> dimsOf(m, bc[i])]))
      meas == InsertionOrder(Flatten([i \in 1..Len(bc) |-> measOf(m, bc[i])]))
      measFields == InsertionOrder([i \in 1..Len(meas) |-> meas[i][1]])
      summarize == [i \in 1..Len(measFields) |->
                      [field |-> measFields[i],
                       ops |-> LET mine == SelectSeq(meas, LAMBDA p : p[1] = measFields[i])
                               IN [k \in 1..Len(mine) |-> mine[k][2]]]]
  IN IF hasAggregate
     THEN << [name |-> SUMMARY,
              source |-> SOURCE,
              transform |-> << [type |-> "aggregate",
                                groupby |-> groupby,
                                summarize |-> summarize] >>] >>
     ELSE <<>>

(***************************************************************************)
(* namespace stack                                                         *)
(***************************************************************************)
\* stack.def
stackDefOf(m, stackProps) ==
  LET groupbyChannel == stackProps.groupbyChannel
      fieldChannel == stackProps.fieldChannel
      facetFields == (IF has(m, COLUMN) THEN <<modelField(m, COLUMN, NoOpt)>> ELSE <<>>) \o
                     (IF has(m, ROW) THEN <<modelField(m, ROW, NoOpt)>> ELSE <<>>)
  IN [name |-> STACKED_SCALE,
      source |-> dataTable(m),
      transform |-> << [type |-> "aggregate",
                        groupby |-> <<modelField(m, groupbyChannel, NoOpt)>> \o facetFields,
                        summarize |-> << [ops |-> <<"sum">>,
                                          field |-> modelField(m, fieldChannel, NoOpt)] >>] >>]

(***************************************************************************)
(* namespace dates                                                         *)
(***************************************************************************)
\* dates.defs
\* one dataset for every channel with a bounded time unit, without alreadyAdded
datesDefs_perChannel(m) ==
  LET bc == BoundChannels(m)
      adds == SelectSeq(bc, LAMBDA c :
                 /\ fieldDefOf(m, c).timeUnit # Undefined
                 /\ ~rawDomain(fieldDefOf(m, c).timeUnit, c).isNull)
  IN [i \in 1..Len(adds) |->
        [name |-> fieldDefOf(m, adds[i]).timeUnit,
         values |-> rawDomain(fieldDefOf(m, adds[i]).timeUnit, adds[i]).values,
         transform |-> << [type |-> "formula",
                           field |-> <<"date">>,
                           expr |-> parseExpression(fieldDefOf(m, adds[i]).timeUnit,
                                                    <<"datum.data">>, TRUE)] >>]]

datesDefs(m) ==
  LET bc == BoundChannels(m)
      adds == SelectSeq(bc, LAMBDA c :
                 /\ fieldDefOf(m, c).timeUnit # Undefined
                 /\ ~rawDomain(fieldDefOf(m, c).timeUnit, c).isNull)
      units == InsertionOrder([i \in 1..Len(adds) |-> fieldDefOf(m, adds[i]).timeUnit])
      first(u) == CHOOSE i \in 1..Len(adds) :
                    /\ fieldDefOf(m, adds[i]).timeUnit = u
                    /\ \A j \in 1..(i - 1) : fieldDefOf(m, adds[j]).timeUnit # u
  IN [i \in 1..Len(units) |->
        [name |-> units[i],
         values |-> rawDomain(units[i], adds[first(units[i])]).values,
         transform |-> << [type |-> "formula",
                           field |-> <<"date">>,
                           expr |-> parseExpression(units[i], <<"datum.data">>, TRUE)] >>]]

(***************************************************************************)
(* The post-processors and compileData                                     *)
(***************************************************************************)
\* the rank for any bound color, whatever its type
rankTransform_anyType(dataTable_, m) ==
  IF has(m, COLOR)
  THEN [dataTable_ EXCEPT !.transform =
          @ \o << [type |-> "sort", by |-> modelField(m, COLOR, NoOpt)],
                  [type |-> "rank",
                   field |-> modelField(m, COLOR, NoOpt),
                   output |-> [rank |-> modelField(m, COLOR,
                                           [NoOpt EXCEPT !.prefn = <<"rank_">>])]] >>]
  ELSE dataTable_

\* rankTransform(dataTable, model): the table with its transform replaced
rankTransform(dataTable_, m) ==
  IF has(m, COLOR) /\ fieldDefOf(m, COLOR).type = ORDINAL
  THEN [dataTable_ EXCEPT !.transform =
          @ \o << [type |-> "sort", by |-> modelField(m, COLOR, NoOpt)],
                  [type |-> "rank",
                   field |-> modelField(m, COLOR, NoOpt),
                   output |-> [rank |-> modelField(m, COLOR,
                                           [NoOpt EXCEPT !.prefn = <<"rank_">>])]] >>]
  ELSE dataTable_

\* one filter per distinct field, as a dictionary of fields would give
logFilters_perField(m) ==
  LET bc == BoundChannels(m)
      logs == SelectSeq(bc, LAMBDA c : scale(m, c).type = "log")
      fields == InsertionOrder([i \in 1..Len(logs) |-> fieldDefOf(m, logs[i]).field])
  IN [i \in 1..Len(fields) |->
        [type |-> "filter", test |-> <<"datum.", fields[i], " > 0">>]]

\* the filters filterNonPositiveForLog pushes, in the order it pushes them
logFilters(m) ==
  LET bc == BoundChannels(m)
      logs == SelectSeq(bc, LAMBDA c : scale(m, c).type = "log")
  IN [i \in 1..Len(logs) |->
        [type |-> "filter",
         test |-> modelField(m, logs[i], [NoOpt EXCEPT !.datum = TRUE]) \o <<" > 0">>]]

\* filterNonPositiveForLog(dataTable, model): the table after the pushes
filterNonPositiveForLog(dataTable_, m) ==
  [dataTable_ EXCEPT !.transform = @ \o logFilters(m)]

\* def with its last dataset replaced
WithLast(def, d) == [def EXCEPT ![Len(def)] = d]

\* the time-domain tables before the stacked scale
compileData_datesBeforeStack(m) ==
  LET def0 == <<sourceDef(m)>>
      def1 == def0 \o summaryDef(m)
      def2 == WithLast(def1, rankTransform(def1[Len(def1)], m))
      def3 == WithLast(def2, filterNonPositiveForLog(def2[Len(def2)], m))
      def4 == Append(def3, layoutDef(m))
      stackProps == stack(m)
  IN def4 \o datesDefs(m) \o
     (IF stackProps.isNull THEN <<>> ELSE <<stackDefOf(m, stackProps)>>)

\* the post-processors run on the source before the summary is pushed
compileData_postProcessSource(m) ==
  LET def0 == <<sourceDef(m)>>
      def2 == WithLast(def0, rankTransform(def0[Len(def0)], m))
      def3 == WithLast(def2, filterNonPositiveForLog(def2[Len(def2)], m))
      def1 == def3 \o summaryDef(m)
      def4 == Append(def1, layoutDef(m))
      stackProps == stack(m)
      def5 == IF stackProps.isNull THEN def4 ELSE Append(def4, stackDefOf(m, stackProps))
  IN def5 \o datesDefs(m)

compileData(m) ==
  LET def0 == <<sourceDef(m)>>
      def1 == def0 \o summaryDef(m)
      def2 == WithLast(def1, rankTransform(def1[Len(def1)], m))
      def3 == WithLast(def2, filterNonPositiveForLog(def2[Len(def2)], m))
      def4 == Append(def3, layoutDef(m))
      stackProps == stack(m)
      def5 == IF stackProps.isNull THEN def4 ELSE Append(def4, stackDefOf(m, stackProps))
  IN def5 \o datesDefs(m)

(***************************************************************************)
(* The Models compiled.  A Model is validated upstream: a bound channel    *)
(* has a field definition and a scale, an unbound channel has the default  *)
(* scale, and stacking names two bound channels.                           *)
(***************************************************************************)
\* the longest list of user calculations
MaxCalc == 2

\* the longest explicit scale domain
MaxDomain == 2

NoBin == [on |-> FALSE, maxbins |-> <<>>, step |-> <<>>]

BinTrue == [on |-> TRUE, maxbins |-> <<>>, step |-> <<>>]

BinMaxbins == [on |-> TRUE, maxbins |-> <<"20">>, step |-> <<>>]

BinStep == [on |-> TRUE, maxbins |-> <<>>, step |-> <<"5">>]

NoDomain == [isArray |-> FALSE, domain |-> <<>>]

ArrayDomains == {[isArray |-> TRUE, domain |-> [i \in 1..n |-> "v"]] : n \in 1..MaxDomain}

Scales(types, domains, paddings, bandWidths) ==
  {[type |-> t, isArray |-> d.isArray, domain |-> d.domain, padding |-> p, bandWidth |-> b] :
     t \in types, d \in domains, p \in paddings, b \in bandWidths}

DefaultScale(padding) ==
  [type |-> Undefined, isArray |-> FALSE, domain |-> <<>>, padding |-> padding,
   bandWidth |-> BandWidth]

Unbound(padding) ==
  [bound |-> FALSE,
   fieldDef |-> [field |-> Undefined, type |-> Undefined, aggregate |-> Undefined,
                 bin |-> NoBin, timeUnit |-> Undefined],
   scale |-> DefaultScale(padding)]

Bound(fields, types, aggregates, bins, timeUnits, scales) ==
  [bound : {TRUE},
   fieldDef : [field : fields, type : types, aggregate : aggregates, bin : bins,
               timeUnit : timeUnits],
   scale : scales]

\* a channel that counts rows: the wildcard field
Count(scales) ==
  [bound : {TRUE},
   fieldDef : {[field |-> "*", type |-> QUANTITATIVE, aggregate |-> "count",
                bin |-> NoBin, timeUnit |-> Undefined]},
   scale : scales]

Encodings(xs, ys, rows, columns, colors) ==
  {[c \in Channel |->
      CASE c = X -> x [] c = Y -> y [] c = ROW -> r [] c = COLUMN -> col [] OTHER -> color] :
     x \in xs, y \in ys, r \in rows, col \in columns, color \in colors}

NoStack == [isNull |-> TRUE, groupbyChannel |-> X, fieldChannel |-> Y]

StackXY == [isNull |-> FALSE, groupbyChannel |-> X, fieldChannel |-> Y]

Calculations == {[field |-> <<"f1">>, expr |-> <<"e1">>], [field |-> <<"f2">>, expr |-> <<"e2">>]}

Calculates(n) == UNION {[1..k -> Calculations] : k \in 0..n}

Models(marks, filterNulls, filters, calculates, units, stacks, hasValuess, encodings) ==
  {m \in [mark : marks,
          transform : [filterNull : filterNulls, filter : filters, calculate : calculates],
          unit : units,
          stackDef : stacks,
          hasValues : hasValuess,
          encoding : encodings] :
     m.stackDef.isNull \/
       (m.encoding[m.stackDef.groupbyChannel].bound /\
        m.encoding[m.stackDef.fieldChannel].bound)}

Units == {[width |-> 200, height |-> 150]}

(***************************************************************************)
(* The operations: each applies one exported function to the Model.        *)
(***************************************************************************)
Apply(name, value) ==
  /\ op = "init"
  /\ op' = name
  /\ ret' = value
  /\ UNCHANGED model

CompileData == Apply("compileData", compileData(model))

SourceTransform == Apply("source.transform", transform(model))

DatesDefs == Apply("dates.defs", datesDefs(model))

TimeTransform == Apply("source.timeTransform", timeTransform(model))

NullFilterTransform == Apply("source.nullFilterTransform", nullFilterTransform(model))

BinTransform == Apply("source.binTransform", binTransform(model))

SummaryDef == Apply("summary.def", summaryDef(model))

LayoutDef == Apply("layout.def", layoutDef(model))

InitWith(models) ==
  /\ model \in models
  /\ op = "init"
  /\ ret = <<>>

(***************************************************************************)
(* source.transform: the order of the stages                               *)
(***************************************************************************)
UserFilter == <<"datum.a > 1">>

SourceModels ==
  LET defs == Bound({"a", "b"}, {ORDINAL, QUANTITATIVE, TEMPORAL_TYPE}, {Undefined},
                    {NoBin, BinTrue}, {Undefined, "month"},
                    Scales({"ordinal", "linear"}, {NoDomain}, {1}, {BandWidth}))
  IN Models({"bar"}, {Undefined, "true", "false"}, {<<>>, UserFilter},
            Calculates(MaxCalc), Units, {NoStack}, {FALSE},
            Encodings(defs \cup {Unbound(1)}, {Unbound(1)}, {Unbound(16)}, {Unbound(16)},
                      defs \cup {Unbound(1)}))

InitSource == InitWith(SourceModels)

NextSource == SourceTransform \/ TimeTransform

SpecSource == InitSource /\ [][NextSource]_vars

Last(s) == s[Len(s)]

IsNullFilter(t) ==
  t.type = "filter" /\ Len(t.test) >= 3 /\ t.test[1] = "datum." /\ Last(t.test) = "!==null"

IsUserFormula(t) ==
  t.type = "formula" /\ [field |-> t.field, expr |-> t.expr] \in Calculations

IsUserFilter(t) == t.type = "filter" /\ t.test = UserFilter

IsBin(t) == t.type = "bin"

IsRangeLabel(t) == t.type = "formula" /\ Last(t.field) = "_range"

IsTimeFormula(t) == t.type = "formula" /\ t.expr[1] = "parse"

\* the stage of source.transform a transform belongs to, 0 for none of them
Stage(t) ==
  CASE IsNullFilter(t) -> 1
    [] IsUserFormula(t) -> 2
    [] IsUserFilter(t) -> 3
    [] IsBin(t) \/ IsRangeLabel(t) -> 4
    [] IsTimeFormula(t) -> 5
    [] OTHER -> 0

NullFilterModels ==
  LET defs == Bound({"a", "b"}, {NOMINAL, ORDINAL, QUANTITATIVE, TEMPORAL_TYPE},
                    {Undefined}, {NoBin}, {Undefined},
                    Scales({"linear"}, {NoDomain}, {1}, {BandWidth}))
                \cup Count(Scales({"linear"}, {NoDomain}, {1}, {BandWidth}))
  IN Models({"bar"}, {Undefined, "true", "false"}, {<<>>}, {<<>>}, Units, {NoStack},
            {FALSE},
            Encodings(defs \cup {Unbound(1)}, defs \cup {Unbound(1)}, {Unbound(16)},
                      {Unbound(16)}, defs \cup {Unbound(1)}))

InitNullFilter == InitWith(NullFilterModels)

NextNullFilter == NullFilterTransform

SpecNullFilter == InitNullFilter /\ [][NextNullFilter]_vars

\* the fields of the bound channels
BoundFields(m) == {fieldDefOf(m, c).field : c \in {d \in Channel : has(m, d)}}

\* the fields that require null filtering: all of them with the override on,
\* none with it off, and by default the named fields of a quantitative or
\* temporal channel
RequiresNullFilter(m) ==
  CASE m.transform.filterNull = "true" -> BoundFields(m)
    [] m.transform.filterNull = "false" -> {}
    [] OTHER -> {fieldDefOf(m, c).field :
                   c \in {d \in Channel :
                            /\ has(m, d)
                            /\ fieldDefOf(m, d).type \in {QUANTITATIVE, TEMPORAL_TYPE}
                            /\ fieldDefOf(m, d).field \notin {Undefined, "*"}}}

\* the clauses of a test joined by ' && '
RECURSIVE Clauses(_)
Clauses(test) ==
  IF Len(test) <= 3 THEN <<test>>
  ELSE IF test[4] = " && " THEN <<SubSeq(test, 1, 3)>> \o Clauses(SubSeq(test, 5, Len(test)))
  ELSE <<test>>

\* C4: nullFilterTransform emits at most one filter; its test joins with ' && '
\* exactly one clause 'datum.<field>!==null' per distinct field that requires
\* null filtering, and nothing is emitted when no field requires it; by
\* default the fields that require it are the named quantitative and temporal ones.
C4_NullFilter ==
  op = "source.nullFilterTransform" =>
    LET need == RequiresNullFilter(model)
    IN /\ Len(ret) <= 1
       /\ (need = {}) <=> (ret = <<>>)
       /\ ret # <<>> =>
            LET clauses == Clauses(ret[1].test)
            IN /\ ret[1].type = "filter"
               /\ Len(clauses) = Cardinality(need)
               /\ \A f \in need :
                     Cardinality({i \in 1..Len(clauses) :
                                    clauses[i] = <<"datum.", f, "!==null">>}) = 1

\* two channels share a field that requires filtering, and a second field
\* requires it too: one filter of two clauses
C4_Witness ==
  /\ op = "source.nullFilterTransform"
  /\ model.transform.filterNull = Undefined
  /\ has(model, X) /\ has(model, Y) /\ has(model, COLOR)
  /\ fieldDefOf(model, X).field = fieldDefOf(model, COLOR).field
  /\ fieldDefOf(model, X).type = QUANTITATIVE
  /\ fieldDefOf(model, Y).field # fieldDefOf(model, X).field
  /\ fieldDefOf(model, Y).type = TEMPORAL_TYPE
  /\ Len(ret) = 1
  /\ Len(Clauses(ret[1].test)) = 2

(***************************************************************************)
(* source.binTransform                                                     *)
(***************************************************************************)
BinModels ==
  LET defs == Bound({"a", "b"}, {QUANTITATIVE}, {Undefined},
                    {NoBin, BinTrue, BinMaxbins, BinStep}, {Undefined},
                    Scales({"ordinal", "linear"}, {NoDomain}, {1}, {BandWidth}))
  IN Models({"bar"}, {Undefined}, {<<>>}, {<<>>}, Units, {NoStack}, {FALSE},
            Encodings(defs \cup {Unbound(1)}, {Unbound(1)}, defs \cup {Unbound(16)},
                      {Unbound(16)}, defs \cup {Unbound(1)}))

InitBin == InitWith(BinModels)

NextBin == BinTransform

SpecBin == InitBin /\ [][NextBin]_vars

\* the bound channels whose field declares binning, in canonical order
BinnedChannels(m) == SelectSeq(BoundChannels(m), LAMBDA c : fieldDefOf(m, c).bin.on)

\* the positions of the bin transforms of a list, ascending
RECURSIVE BinPositions(_, _)
BinPositions(ts, from) ==
  IF from > Len(ts) THEN <<>>
  ELSE (IF ts[from].type = "bin" THEN <<from>> ELSE <<>>) \o BinPositions(ts, from + 1)

IsRangeLabelOf(t, f) ==
  /\ t.type = "formula"
  /\ t.field = <<f, "_range">>
  /\ t.expr = <<"datum.", f, "_start", " + '-' + ", "datum.", f, "_end">>

\* C8: binTransform emits one bin transform per channel whose field declares
\* binning, with outputs <field>_start, <field>_mid and <field>_end, followed
\* immediately by the range-label formula <field>_range exactly when the
\* channel's scale type is ordinal or the channel is color, and nothing else.
C8_BinTransform ==
  op = "source.binTransform" =>
    LET binned == BinnedChannels(model)
        at == BinPositions(ret, 1)
        labelled(k) == at[k] < Len(ret) /\ ret[at[k] + 1].type # "bin"
    IN /\ Len(at) = Len(binned)
       /\ \A k \in 1..Len(at) :
            LET f == fieldDefOf(model, binned[k]).field
                t == ret[at[k]]
            IN /\ t.field = <<f>>
               /\ t.output = [start |-> <<f, "_start">>, mid |-> <<f, "_mid">>,
                              end |-> <<f, "_end">>]
               /\ labelled(k) <=>
                    (scale(model, binned[k]).type = "ordinal" \/ binned[k] = COLOR)
               /\ labelled(k) => IsRangeLabelOf(ret[at[k] + 1], f)
       /\ \A i \in 1..Len(ret) :
            ret[i].type # "bin" => i > 1 /\ ret[i - 1].type = "bin"

\* a binned x on a linear scale gets no label, a binned row on an ordinal
\* scale and a binned color on a linear scale get one
C8_Witness ==
  /\ op = "source.binTransform"
  /\ BinnedChannels(model) = <<X, ROW, COLOR>>
  /\ scale(model, X).type = "linear"
  /\ scale(model, ROW).type = "ordinal"
  /\ scale(model, COLOR).type = "linear"
  /\ Len(ret) = 5

(***************************************************************************)
(* summary.def                                                             *)
(***************************************************************************)
SummaryModels ==
  LET scales == Scales({"ordinal", "linear"}, {NoDomain}, {1}, {BandWidth})
      defs == Bound({"a", "b"}, {QUANTITATIVE}, {Undefined, "sum"}, {NoBin, BinTrue},
                    {Undefined}, scales)
                \cup Count(Scales({"linear"}, {NoDomain}, {1}, {BandWidth}))
  IN Models({"bar"}, {Undefined}, {<<>>}, {<<>>}, Units, {NoStack}, {FALSE},
            Encodings(defs \cup {Unbound(1)}, defs \cup {Unbound(1)},
                      defs \cup {Unbound(16)}, {Unbound(16)}, defs \cup {Unbound(1)}))

InitSummary == InitWith(SummaryModels)

NextSummary == SummaryDef

SpecSummary == InitSummary /\ [][NextSummary]_vars

\* the names a non-aggregated channel groups by
GroupbyNames(m, c) ==
  LET f == fieldDefOf(m, c).field
  IN IF fieldDefOf(m, c).bin.on
     THEN {<<f, "_start">>, <<f, "_mid">>, <<f, "_end">>} \cup
          (IF scale(m, c).type = "ordinal" THEN {<<f, "_range">>} ELSE {})
     ELSE {<<f>>}

NonAggregated(m) ==
  {c \in Channel : has(m, c) /\ fieldDefOf(m, c).aggregate = Undefined}

\* C2: summary.def returns no dataset when no channel aggregates; otherwise one
\* dataset read from the source table whose groupby holds, each once, exactly
\* the field references of the non-aggregated channels, a binned field giving
\* its _start, _mid, _end (and _range on an ordinal scale) names for its own.
C2_SummaryGroupby ==
  op = "summary.def" =>
    IF \A c \in Channel : has(model, c) => fieldDefOf(model, c).aggregate = Undefined
    THEN ret = <<>>
    ELSE /\ Len(ret) = 1
         /\ ret[1].name = SUMMARY
         /\ ret[1].source = SOURCE
         /\ Len(ret[1].transform) = 1
         /\ ret[1].transform[1].type = "aggregate"
         /\ LET groupby == ret[1].transform[1].groupby
            IN /\ Range(groupby) =
                    UNION {GroupbyNames(model, c) : c \in NonAggregated(model)}
               /\ Cardinality(Range(groupby)) = Len(groupby)

\* y and color share an unbinned field, row is binned on an ordinal scale and
\* x is aggregated
C2_Witness ==
  /\ op = "summary.def"
  /\ fieldDefOf(model, X).aggregate = "sum"
  /\ has(model, Y) /\ has(model, COLOR) /\ has(model, ROW)
  /\ fieldDefOf(model, Y).field = "a" /\ fieldDefOf(model, COLOR).field = "a"
  /\ fieldDefOf(model, Y).aggregate = Undefined /\ ~fieldDefOf(model, Y).bin.on
  /\ fieldDefOf(model, COLOR).aggregate = Undefined /\ ~fieldDefOf(model, COLOR).bin.on
  /\ fieldDefOf(model, ROW).field = "b" /\ fieldDefOf(model, ROW).bin.on
  /\ fieldDefOf(model, ROW).aggregate = Undefined
  /\ scale(model, ROW).type = "ordinal"
  /\ Len(ret) = 1
  /\ Len(ret[1].transform[1].groupby) = 5

(***************************************************************************)
(* layout.def                                                              *)
(***************************************************************************)
LayoutModels ==
  LET domains == {NoDomain} \cup ArrayDomains
      timeUnits == {Undefined, "month", "year"}
      cell(f) == Bound({f}, {ORDINAL}, {Undefined}, {NoBin}, timeUnits,
                       Scales({"ordinal"}, domains, {1}, {BandWidth}))
                 \cup Bound({f}, {QUANTITATIVE}, {Undefined}, {NoBin}, timeUnits,
                            Scales({"linear"}, {NoDomain}, {1}, {BandWidth}))
      facet(f) == Bound({f}, {ORDINAL}, {Undefined}, {NoBin}, timeUnits,
                        Scales({"ordinal"}, domains, {16}, {BandWidth}))
  IN Models({TEXT_MARK, "bar"}, {Undefined}, {<<>>}, {<<>>}, Units, {NoStack}, {FALSE},
            Encodings(cell("a") \cup {Unbound(1)}, cell("b") \cup {Unbound(1)},
                      facet("r") \cup {Unbound(16)}, facet("c") \cup {Unbound(16)},
                      {Unbound(1)}))

InitLayout == InitWith(LayoutModels)

NextLayout == LayoutDef

SpecLayout == InitLayout /\ [][NextLayout]_vars

\* the expression of the formula transform of a dataset that writes a field
ExprOf(d, name) ==
  LET i == CHOOSE k \in 1..Len(d.transform) :
             d.transform[k].type = "formula" /\ d.transform[k].field = <<name>>
  IN d.transform[i].expr

\* the number of values of a bounded time unit, 0 for any other
BoundedLength(timeUnit) ==
  CASE timeUnit = "month" -> 12 [] timeUnit = "day" -> 7 [] OTHER -> 0

\* the cardinality of a channel by the three-way precedence: the explicit
\* domain's length, else the bounded time unit's, else the distinct count
Cardinality3(m, c) ==
  IF scale(m, c).isArray THEN <<ToString(Len(scale(m, c).domain))>>
  ELSE IF BoundedLength(fieldDefOf(m, c).timeUnit) > 0
       THEN <<ToString(BoundedLength(fieldDefOf(m, c).timeUnit))>>
  ELSE <<"datum.", "distinct_", fieldDefOf(m, c).field>>

CellSize(m, c, unitSize) ==
  IF ~has(m, c)
  THEN IF c = X /\ m.mark = TEXT_MARK THEN <<"90">> ELSE <<"21">>
  ELSE IF scale(m, c).type # "ordinal" THEN <<ToString(unitSize)>>
  ELSE <<"(">> \o Cardinality3(m, c) \o
       <<" + ", ToString(scale(m, c).padding), ") * ", ToString(scale(m, c).bandWidth)>>

\* C9: cellWidth (from x) and cellHeight (from y) are 90 for an unused x on a
\* text mark and 21 for any other unused channel, the configured unit size for
\* a non-discrete scale, and '(cardinality + padding) * bandWidth' for a
\* discrete scale, the cardinality by the three-way precedence.
C9_CellSize ==
  op = "layout.def" =>
    /\ ExprOf(ret, "cellWidth") = CellSize(model, X, model.unit.width)
    /\ ExprOf(ret, "cellHeight") = CellSize(model, Y, model.unit.height)

\* x is discrete with a bounded time unit and no explicit domain, y is unused
\* on a text mark
C9_Witness ==
  /\ op = "layout.def"
  /\ model.mark = TEXT_MARK
  /\ has(model, X) /\ scale(model, X).type = "ordinal" /\ ~scale(model, X).isArray
  /\ fieldDefOf(model, X).timeUnit = "month"
  /\ ~has(model, Y)
  /\ ExprOf(ret, "cellWidth") = <<"(", "12", " + ", "1", ") * ", "21">>
  /\ ExprOf(ret, "cellHeight") = <<"21">>

TotalSize(m, c, perCellSize) ==
  IF has(m, c)
  THEN <<"(">> \o perCellSize \o <<" + ", ToString(scale(m, c).padding), ")", " * ">> \o
       Cardinality3(m, c)
  ELSE perCellSize \o <<" + ", ToString(scale(m, c).padding)>>

\* C10: the total width (with column) and height (with row) are
\* '(perCellSize + facetPadding) * facetCardinality' when the facet channel is
\* bound, the cardinality by the three-way precedence, and
\* 'perCellSize + facetPadding' when it is not, also when neither is bound.
C10_TotalSize ==
  op = "layout.def" =>
    /\ ExprOf(ret, "width") = TotalSize(model, COLUMN, <<"datum.cellWidth">>)
    /\ ExprOf(ret, "height") = TotalSize(model, ROW, <<"datum.cellHeight">>)

(***************************************************************************)
(* compileData                                                             *)
(***************************************************************************)
CompileModels ==
  LET scales == Scales({"linear", "log"}, {NoDomain}, {1}, {BandWidth})
      xs == Bound({"a"}, {TEMPORAL_TYPE}, {Undefined, "sum"}, {NoBin},
                  {Undefined, "month"}, scales)
      ys == Bound({"b"}, {QUANTITATIVE}, {Undefined, "sum"}, {NoBin, BinTrue},
                  {Undefined, "month", "year"}, scales)
      colors == Bound({"a", "c"}, {NOMINAL, ORDINAL}, {Undefined}, {NoBin},
                      {Undefined, "day"},
                      Scales({"ordinal", "log"}, {NoDomain}, {1}, {BandWidth}))
      rows == Bound({"r"}, {ORDINAL}, {Undefined}, {NoBin}, {Undefined},
                    Scales({"ordinal"}, {NoDomain}, {16}, {BandWidth}))
  IN Models({"bar"}, {Undefined}, {UserFilter}, {<<>>}, Units, {NoStack, StackXY},
            {FALSE, TRUE},
            Encodings(xs \cup {Unbound(1)}, ys \cup {Unbound(1)},
                      rows \cup {Unbound(16)}, {Unbound(16)},
                      colors \cup {Unbound(1)}))

Init == InitWith(CompileModels)

Next == CompileData

Spec == Init /\ [][Next]_vars

\* the group of the output a dataset belongs to, by its name
Group(d) ==
  CASE d.name = SOURCE -> 1
    [] d.name = SUMMARY -> 2
    [] d.name = LAYOUT -> 3
    [] d.name = STACKED_SCALE -> 4
    [] OTHER -> 5

CountGroup(defs, g) == Cardinality({i \in 1..Len(defs) : Group(defs[i]) = g})

\* C1: compileData returns the source dataset first and once, then the summary
\* dataset iff the model aggregates, then one layout dataset, then the
\* stacked-scale dataset iff the model declares stacking, then the time-domain
\* datasets; no dataset of a later group precedes one of an earlier group.
C1_DatasetOrder ==
  op = "compileData" =>
    /\ \A i, j \in 1..Len(ret) : i < j => Group(ret[i]) <= Group(ret[j])
    /\ ret[1].name = SOURCE
    /\ CountGroup(ret, 1) = 1
    /\ CountGroup(ret, 2) = IF isAggregate(model) THEN 1 ELSE 0
    /\ CountGroup(ret, 3) = 1
    /\ CountGroup(ret, 4) = IF model.stackDef.isNull THEN 0 ELSE 1
    /\ \A i \in 1..Len(ret) :
          Group(ret[i]) = 5 =>
            \E c \in Channel : has(model, c) /\ fieldDefOf(model, c).timeUnit = ret[i].name

\* all five groups occur, two time-domain datasets among them
C1_Witness ==
  /\ op = "compileData"
  /\ \A g \in 1..5 : CountGroup(ret, g) >= 1
  /\ CountGroup(ret, 5) = 2

Transforms(defs) == Flatten([i \in 1..Len(defs) |-> defs[i].transform])

HasRank(defs) == \E i \in 1..Len(Transforms(defs)) : Transforms(defs)[i].type = "rank"

ColorIsOrdinal(m) == has(m, COLOR) /\ fieldDefOf(m, COLOR).type = ORDINAL

\* the dataset the post-processors run on: the summary if there is one, else
\* the source
Target(defs) == IF Len(defs) >= 2 /\ defs[2].name = SUMMARY THEN 2 ELSE 1

IsLogFilter(t) == t.type = "filter" /\ Last(t.test) = " > 0"

LogChannels(m) == SelectSeq(BoundChannels(m), LAMBDA c : scale(m, c).type = "log")

\* C5 as claimed: a rank transform is present iff the color channel is bound
\* and ordinal, and then the sort and the rank that follows it end the target
\* dataset's transform list, also when some channel has a log scale.
C5_RankLast ==
  op = "compileData" =>
    /\ HasRank(ret) <=> ColorIsOrdinal(model)
    /\ HasRank(ret) =>
         LET ts == ret[Target(ret)].transform
         IN /\ Len(ts) >= 2
            /\ ts[Len(ts)].type = "rank"
            /\ ts[Len(ts) - 1].type = "sort"

\* the transforms a dataset is built with, before the post-processors run
AsBuilt(m, d) ==
  IF d.name = SOURCE THEN transform(m)
  ELSE << [type |-> "aggregate",
           groupby |-> d.transform[1].groupby,
           summarize |-> d.transform[1].summarize] >>

\* C5 as amended: a rank transform is present iff the color channel is bound
\* and ordinal, and then the sort and the rank that follows it come right
\* after the transforms the target dataset was built with; only the log-scale
\* filters follow, so the rank is last exactly when no channel has a log scale.
C5_RankAfterBuilt ==
  op = "compileData" =>
    /\ HasRank(ret) <=> ColorIsOrdinal(model)
    /\ HasRank(ret) =>
         LET ts == ret[Target(ret)].transform
             n == Len(AsBuilt(model, ret[Target(ret)]))
         IN /\ Len(ts) >= n + 2
            /\ SubSeq(ts, 1, n) = AsBuilt(model, ret[Target(ret)])
            /\ ts[n + 1].type = "sort"
            /\ ts[n + 1].by = <<fieldDefOf(model, COLOR).field>>
            /\ ts[n + 2].type = "rank"
            /\ ts[n + 2].field = <<fieldDefOf(model, COLOR).field>>
            /\ \A i \in (n + 3)..Len(ts) : IsLogFilter(ts[i])
            /\ (ts[Len(ts)].type = "rank") <=> (LogChannels(model) = <<>>)

\* the color is ordinal, the model aggregates and two channels have a log
\* scale: the rank is followed by two filters in the summary dataset
C5_Witness ==
  /\ op = "compileData"
  /\ ColorIsOrdinal(model)
  /\ Len(LogChannels(model)) = 2
  /\ Target(ret) = 2
  /\ Len(ret[2].transform) = 5
  /\ ret[2].transform[3].type = "rank"

\* C6: the output holds exactly one filter '<field reference> > 0' for each
\* channel whose scale type is 'log', on that channel's own field, and none
\* when no channel has a log scale.
C6_LogFilters ==
  op = "compileData" =>
    LET logs == SelectSeq(Transforms(ret), IsLogFilter)
        chans == {c \in Channel : has(model, c) /\ scale(model, c).type = "log"}
    IN /\ Len(logs) = Cardinality(chans)
       /\ \A c \in chans :
            Cardinality({i \in 1..Len(logs) :
                           logs[i].test = <<"datum.", fieldDefOf(model, c).field, " > 0">>})
              = Cardinality({d \in chans :
                               fieldDefOf(model, d).field = fieldDefOf(model, c).field})

\* x and color share a field and both have a log scale, y has one too
C6_Witness ==
  /\ op = "compileData"
  /\ LogChannels(model) = <<X, Y, COLOR>>
  /\ fieldDefOf(model, X).field = fieldDefOf(model, COLOR).field
  /\ Len(SelectSeq(Transforms(ret), IsLogFilter)) = 3

IsPostProcessed(t) == t.type \in {"sort", "rank"} \/ IsLogFilter(t)

\* C7: the post-processors only append to the dataset that is last when they
\* run, the summary if there is one and else the source: that dataset keeps
\* the transforms it was built with in front, with a summary the source's list
\* is what source.transform returned, and no later dataset holds a sort, rank
\* or log-filter transform.
C7_OnlyTheLastDataset ==
  op = "compileData" =>
    LET t == Target(ret)
        built == AsBuilt(model, ret[t])
    IN /\ (t = 2) <=> isAggregate(model)
       /\ t = 2 => ret[1].transform = transform(model)
       /\ Len(ret[t].transform) = Len(built) + Len(LogChannels(model)) +
                                  (IF ColorIsOrdinal(model) THEN 2 ELSE 0)
       /\ SubSeq(ret[t].transform, 1, Len(built)) = built
       /\ \A i \in (Len(built) + 1)..Len(ret[t].transform) :
             IsPostProcessed(ret[t].transform[i])
       /\ \A i \in (t + 1)..Len(ret) :
             \A k \in 1..Len(ret[i].transform) : ~IsPostProcessed(ret[i].transform[k])

\* with a summary, an ordinal color and a log scale the source keeps its own
\* non-empty list and the summary grows
C7_Witness ==
  /\ op = "compileData"
  /\ Target(ret) = 2
  /\ ColorIsOrdinal(model)
  /\ LogChannels(model) # <<>>
  /\ ret[1].transform # <<>>
  /\ Len(ret[2].transform) > 3
  /\ Len(ret) >= 5

(***************************************************************************)
(* The facet domain assembler, FacetNode.assemble (compile/data/facet is   *)
(* not part of the sources; its test is).  A facet model is a record       *)
(*   column, row: the facet fields, Undefined when not faceted,            *)
(*   x, y: [field, independent] of the child's positional channels, where  *)
(*         independent says the child scale is independent, discrete and   *)
(*         has a fixed step,                                               *)
(*   data: the name of the upstream table.                                 *)
(***************************************************************************)
COLUMN_DOMAIN == "column_domain"

ROW_DOMAIN == "row_domain"

CROSS_DOMAIN == "cross_column_domain_row_domain"

\* the child channel whose scale a facet channel sizes
childChannel(channel) == IF channel = ROW THEN Y ELSE X

\* the dataset of one facet axis: a distinct count over the upstream table, or
\* the maximum of the cross table's distinct counts
assembleRowColumnData(fm, channel, crossed) ==
  LET child == fm[childChannel(channel)]
      groupby == <<fm[channel]>>
      nm == IF channel = ROW THEN ROW_DOMAIN ELSE COLUMN_DOMAIN
  IN [name |-> nm,
      source |-> IF crossed THEN CROSS_DOMAIN ELSE fm.data,
      transform |->
        << IF ~child.independent
           THEN [type |-> "aggregate", groupby |-> groupby]
           ELSE IF crossed
           THEN [type |-> "aggregate", groupby |-> groupby,
                 fields |-> << <<"distinct_", child.field>> >>,
                 ops |-> <<"max">>,
                 as |-> << <<"distinct_", child.field>> >>]
           ELSE [type |-> "aggregate", groupby |-> groupby,
                 fields |-> << <<child.field>> >>,
                 ops |-> <<"distinct">>] >>]

\* the axis datasets read the upstream table also in the cross case
assemble_noCross(fm) ==
  LET crossed == fm.column # Undefined /\ fm.row # Undefined /\
                 (fm.x.independent \/ fm.y.independent)
      fields == (IF fm.x.independent THEN << <<fm.x.field>> >> ELSE <<>>) \o
                (IF fm.y.independent THEN << <<fm.y.field>> >> ELSE <<>>)
  IN (IF crossed
      THEN << [name |-> CROSS_DOMAIN,
               source |-> fm.data,
               transform |-> << [type |-> "aggregate",
                                 groupby |-> <<fm.column, fm.row>>,
                                 fields |-> fields,
                                 ops |-> [i \in 1..Len(fields) |-> "distinct"]] >>] >>
      ELSE <<>>) \o
     (IF fm.column # Undefined THEN <<assembleRowColumnData(fm, COLUMN, FALSE)>> ELSE <<>>) \o
     (IF fm.row # Undefined THEN <<assembleRowColumnData(fm, ROW, FALSE)>> ELSE <<>>)

\* FacetNode.assemble
assemble(fm) ==
  LET crossed == fm.column # Undefined /\ fm.row # Undefined /\
                 (fm.x.independent \/ fm.y.independent)
      fields == (IF fm.x.independent THEN << <<fm.x.field>> >> ELSE <<>>) \o
                (IF fm.y.independent THEN << <<fm.y.field>> >> ELSE <<>>)
  IN (IF crossed
      THEN << [name |-> CROSS_DOMAIN,
               source |-> fm.data,
               transform |-> << [type |-> "aggregate",
                                 groupby |-> <<fm.column, fm.row>>,
                                 fields |-> fields,
                                 ops |-> [i \in 1..Len(fields) |-> "distinct"]] >>] >>
      ELSE <<>>) \o
     (IF fm.column # Undefined THEN <<assembleRowColumnData(fm, COLUMN, crossed)>> ELSE <<>>) \o
     (IF fm.row # Undefined THEN <<assembleRowColumnData(fm, ROW, crossed)>> ELSE <<>>)

\* the facet models of the two cases the design names: one axis faceted with
\* its child scale independent, both axes faceted with an independent child scale
FacetModels ==
  {fm \in [column : {Undefined, "c", "gender"},
           row : {Undefined, "r"},
           x : [field : {"a", "age"}, independent : BOOLEAN],
           y : [field : {"b", "people"}, independent : BOOLEAN],
           data : {"dataName", SOURCE}] :
     \/ fm.column # Undefined /\ fm.row = Undefined /\ fm.x.independent
     \/ fm.column = Undefined /\ fm.row # Undefined /\ fm.y.independent
     \/ fm.column # Undefined /\ fm.row # Undefined /\
        (fm.x.independent \/ fm.y.independent)}

FacetAssemble == Apply("facet.assemble", assemble(model))

InitFacet == InitWith(FacetModels)

NextFacet == FacetAssemble

SpecFacet == InitFacet /\ [][NextFacet]_vars

\* C11: with row and column faceted and independent discrete x and y child
\* scales, assemble gives three datasets in this order: the cross table, read
\* from the upstream table, grouped by [column field, row field] with a distinct
\* count of each child field; column_domain, read from the cross table, grouped
\* by the column field with the max of x's distinct count under the same name;
\* row_domain, likewise by the row field with y's.  With one axis faceted it
\* gives one dataset, read from the upstream table, grouped by the facet field
\* with a distinct count of the child field.
C11_FacetDomains ==
  op = "facet.assemble" =>
    LET col == model.column
        row == model.row
        dx == <<"distinct_", model.x.field>>
        dy == <<"distinct_", model.y.field>>
    IN /\ (col # Undefined /\ row # Undefined /\ model.x.independent /\ model.y.independent) =>
            ret = << [name |-> CROSS_DOMAIN, source |-> model.data,
                      transform |-> << [type |-> "aggregate", groupby |-> <<col, row>>,
                                        fields |-> << <<model.x.field>>, <<model.y.field>> >>,
                                        ops |-> <<"distinct", "distinct">>] >>],
                     [name |-> COLUMN_DOMAIN, source |-> CROSS_DOMAIN,
                      transform |-> << [type |-> "aggregate", groupby |-> <<col>>,
                                        fields |-> <<dx>>, ops |-> <<"max">>,
                                        as |-> <<dx>>] >>],
                     [name |-> ROW_DOMAIN, source |-> CROSS_DOMAIN,
                      transform |-> << [type |-> "aggregate", groupby |-> <<row>>,
                                        fields |-> <<dy>>, ops |-> <<"max">>,
                                        as |-> <<dy>>] >>] >>
       /\ (col # Undefined /\ row = Undefined) =>
            ret = << [name |-> COLUMN_DOMAIN, source |-> model.data,
                      transform |-> << [type |-> "aggregate", groupby |-> <<col>>,
                                        fields |-> << <<model.x.field>> >>,
                                        ops |-> <<"distinct">>] >>] >>
       /\ (col = Undefined /\ row # Undefined) =>
            ret = << [name |-> ROW_DOMAIN, source |-> model.data,
                      transform |-> << [type |-> "aggregate", groupby |-> <<row>>,
                                        fields |-> << <<model.y.field>> >>,
                                        ops |-> <<"distinct">>] >>] >>

\* the model of the assembler's test: r and c faceted, independent x on a and
\* y on b, three datasets
C11_Witness ==
  /\ op = "facet.assemble"
  /\ model.column = "c" /\ model.row = "r"
  /\ model.x = [field |-> "a", independent |-> TRUE]
  /\ model.y = [field |-> "b", independent |-> TRUE]
  /\ model.data = "dataName"
  /\ Len(ret) = 3
  /\ ret[2].source = CROSS_DOMAIN
  /\ ret[3].transform[1].fields = << <<"distinct_", "b">> >>

(***************************************************************************)
(* source.timeTransform                                                    *)
(***************************************************************************)
\* the formula that truncates the field of a field definition to its time unit,
\* written over the field itself
TimeFormulaOf(fd) ==
  [type |-> "formula",
   field |-> <<fd.field>>,
   expr |-> parseExpression(fd.timeUnit, <<"datum.", fd.field>>, FALSE)]

TimeUnitChannels(m) ==
  SelectSeq(BoundChannels(m), LAMBDA c : fieldDefOf(m, c).timeUnit # Undefined)

TemporalTimeUnitChannels(m) ==
  SelectSeq(TimeUnitChannels(m), LAMBDA c : fieldDefOf(m, c).type = TEMPORAL_TYPE)

\* C12 as stated: timeTransform emits one formula for each channel whose field
\* declares a time unit, whatever the field's type, and none for the others;
\* the formula's output field is the channel's own field.
C12_EveryTimeUnit ==
  op = "source.timeTransform" =>
    LET tc == TimeUnitChannels(model)
    IN /\ Len(ret) = Len(tc)
       /\ \A i \in 1..Len(tc) : ret[i] = TimeFormulaOf(fieldDefOf(model, tc[i]))

\* C12: timeTransform emits one formula for each channel whose field is
\* temporal and declares a time unit, in channel order, and none for a channel
\* without a time unit or with a field of another type; the formula's output
\* field is the channel's own field, which its expression reads.
C12_TemporalTimeUnit ==
  op = "source.timeTransform" =>
    LET tc == TemporalTimeUnitChannels(model)
    IN /\ Len(ret) = Len(tc)
       /\ \A i \in 1..Len(tc) : ret[i] = TimeFormulaOf(fieldDefOf(model, tc[i]))

\* x temporal and color ordinal, both with a time unit: one formula, for x
C12_Witness ==
  /\ op = "source.timeTransform"
  /\ has(model, X) /\ has(model, COLOR)
  /\ fieldDefOf(model, X).type = TEMPORAL_TYPE /\ fieldDefOf(model, X).timeUnit = "month"
  /\ fieldDefOf(model, COLOR).type = ORDINAL /\ fieldDefOf(model, COLOR).timeUnit = "month"
  /\ Len(ret) = 1
  /\ ret[1].field = <<fieldDefOf(model, X).field>>

(***************************************************************************)
(* dates.defs                                                              *)
(***************************************************************************)
DatesModels ==
  LET units == {Undefined, "month", "day", "year"}
      scales == Scales({"linear"}, {NoDomain}, {1}, {BandWidth})
      xs == Bound({"a"}, {TEMPORAL_TYPE}, {Undefined}, {NoBin}, units, scales)
      ys == Bound({"b"}, {TEMPORAL_TYPE, QUANTITATIVE}, {Undefined, "sum"}, {NoBin},
                  units, scales)
      colors == Bound({"a", "c"}, {TEMPORAL_TYPE, ORDINAL}, {Undefined}, {NoBin}, units,
                      Scales({"ordinal"}, {NoDomain}, {1}, {BandWidth}))
  IN Models({"bar"}, {Undefined}, {<<>>}, {<<>>}, Units, {NoStack, StackXY}, {FALSE},
            Encodings(xs \cup {Unbound(1)}, ys \cup {Unbound(1)},
                      {Unbound(16)}, {Unbound(16)}, colors \cup {Unbound(1)}))

InitDates == InitWith(DatesModels)

NextDates == DatesDefs \/ CompileData

SpecDates == InitDates /\ [][NextDates]_vars

\* the time units of the bound channels, in channel order, one entry a channel
UnitsUsed(m) ==
  LET tc == TimeUnitChannels(m)
  IN [i \in 1..Len(tc) |-> fieldDefOf(m, tc[i]).timeUnit]

\* a time unit with an enumerable domain
IsBounded(unit) == ~rawDomain(unit, X).isNull

\* the position of the first occurrence of e in s
FirstIndex(s, e) == CHOOSE i \in 1..Len(s) : s[i] = e /\ \A j \in 1..(i - 1) : s[j] # e

\* C13: dates.defs gives exactly one dataset for each distinct bounded time
\* unit a channel uses, named after the unit, in the order of the units' first
\* occurrence across the channels; a unit several channels use gives one
\* dataset, an unbounded unit none, and the names of the datasets of one
\* compileData output are pairwise distinct.
C13_DateDatasets ==
  /\ op = "dates.defs" =>
       LET used == UnitsUsed(model)
           names == [i \in 1..Len(ret) |-> ret[i].name]
       IN /\ Range(names) = {u \in Range(used) : IsBounded(u)}
          /\ \A i, j \in 1..Len(names) :
               i < j => /\ names[i] # names[j]
                        /\ FirstIndex(used, names[i]) < FirstIndex(used, names[j])
  /\ op = "compileData" =>
       \A i, j \in 1..Len(ret) : i < j => ret[i].name # ret[j].name

\* x and color both by day, y by month: two datasets, day first
C13_Witness ==
  /\ op = "dates.defs"
  /\ UnitsUsed(model) = <<"day", "month", "day">>
  /\ Len(ret) = 2
  /\ ret[1].name = "day" /\ ret[2].name = "month"

(***************************************************************************)
(* source.nullFilterTransform: the wildcard of count                       *)
(***************************************************************************)
\* C14: whatever the null-filter override is (true, false or absent), the test
\* of the null filter has no clause on the wildcard field '*' of a count and no
\* clause for a channel without a field name.
C14_NoWildcardClause ==
  (op = "source.nullFilterTransform" /\ ret # <<>>) =>
    LET clauses == Clauses(ret[1].test)
    IN \A i \in 1..Len(clauses) : clauses[i][2] \notin {"*", Undefined}

(***************************************************************************)
(* layout.def without facets                                               *)
(***************************************************************************)
\* C15: with neither row nor column bound, the 'height' formula is the same
\* expression as the 'cellHeight' formula, which comes from y and the unit
\* height, and the 'width' formula is the same expression as the 'cellWidth'
\* formula; the total height does not depend on x or the unit width.
C15_NonFacetSize ==
  (op = "layout.def" /\ ~has(model, ROW) /\ ~has(model, COLUMN)) =>
    /\ ExprOf(ret, "width") = ExprOf(ret, "cellWidth")
    /\ ExprOf(ret, "height") = ExprOf(ret, "cellHeight")
    /\ ExprOf(ret, "height") = CellSize(model, Y, model.unit.height)

(***************************************************************************)
(* the bin-derived fields of the source in summary.def                     *)
(***************************************************************************)
\* the fields the transforms of source.binTransform create for a channel: the
\* three outputs of the bin and the field of the range-label formula if emitted
BinDerived(m, c) ==
  LET bt == binTransformOf(m, c)
  IN UNION {IF bt[i].type = "bin"
            THEN {bt[i].output.start, bt[i].output.mid, bt[i].output.end}
            ELSE {bt[i].field} : i \in 1..Len(bt)}

\* C16: whenever a summary dataset is produced, every bin-derived field the
\* source creates for a non-aggregated binned channel (_start, _mid, _end, and
\* _range when the range-label formula was emitted) is in the summary's
\* groupby; a binned non-aggregated color keeps its _range.
C16_BinDerivedKept ==
  (op = "summary.def" /\ ret # <<>>) =>
    \A c \in NonAggregated(model) :
      BinDerived(model, c) \subseteq Range(ret[1].transform[1].groupby)

====
